---- MODULE Spec2Model ----
(***************************************************************************)
(* A model of camera.py: capture_stream (the entry point and the           *)
(* continuous-stream loop) and capture_snapshot_stream (the snapshot       *)
(* poller).  The program is single-threaded; every action below is one     *)
(* straight-line stretch of the code between two blocking calls, and pc    *)
(* is the position of the interpreter.                                     *)
(*                                                                         *)
(* Time is counted in abstract units: `now` is the last value returned by  *)
(* time.time().  A file name is modelled by its sequence number alone      *)
(* (frame_<n>_...): no statement checked here reads the timestamp part.    *)
(***************************************************************************)
EXTENDS Integers, Sequences, FiniteSets

\* ---------------------------------------------------------------- bounds
MaxReads    == 4   \* frames the stream yields before it ends
MaxTime     == 5   \* largest value of the clock
MaxInterval == 3   \* largest interval argument
MaxFetches  == 4   \* fetches the poller issues before it is interrupted
MaxFetchDur == 1   \* longest time a fetch/decode/render takes

NONE    == 0 - 1   \* "no value yet" for the recording variables
UNBOUND == "<unbound>"   \* a local name that was never assigned

\* ------------------------------------------------------- strings (URLs)
\* A string is a sequence of one-character strings.

LowerChar(c) ==
    CASE c = "S" -> "s" [] c = "N" -> "n" [] c = "A" -> "a" [] c = "P" -> "p"
      [] c = "J" -> "j" [] c = "G" -> "g" [] c = "L" -> "l"
      [] OTHER -> c

\* str.lower()
Lower(s) == [i \in 1..Len(s) |-> LowerChar(s[i])]

\* str.endswith(suf)
EndsWith(s, suf) ==
    /\ Len(suf) <= Len(s)
    /\ SubSeq(s, Len(s) - Len(suf) + 1, Len(s)) = suf

\* sub in s
Contains(s, sub) ==
    \E i \in 1..(Len(s) - Len(sub) + 1) : SubSeq(s, i, i + Len(sub) - 1) = sub

DotJpg == <<".", "j", "p", "g">>
Snap   == <<"s", "n", "a", "p">>

\* line 30: stream_url.endswith('.jpg') or 'snap' in stream_url.lower()
IsSnapshot(url) == EndsWith(url, DotJpg) \/ Contains(Lower(url), Snap)

\* The addresses the entry point is called with.
URLS ==
    { <<"/", "l", "i", "v", "e">>,                       \* rtsp-like stream
      <<"/", "a", ".", "j", "p", "g">>,                  \* ends in .jpg
      <<"/", "S", "n", "A", "p">>,                       \* snap, mixed case
      <<"/", "a", ".", "j", "p", "g", "?", "c">>,        \* .jpg path + query
      <<"/", "a", ".", "J", "P", "G">> }                 \* upper-case suffix

VARIABLES
    \* the arguments of capture_stream
    stream_url, interval, save_frames, show_live,
    \* the interpreter
    pc,                 \* position in the code
    exc,                \* the exception that left capture_stream, or "none"
    output_folder,      \* local of capture_stream: UNBOUND until line 23
    cap,                \* "none" | "unopened" | "opened" | "released"
    last_capture_time, frame_count,
    now,                \* the clock: last value of time.time()
    \* the world
    dirExists,          \* the session directory exists
    makedirsCalls,      \* calls of os.makedirs
    files,              \* sequence numbers of the frame files on disk
    imwriteCalls,       \* calls of cv2.imwrite
    windowOpen,         \* the preview window is on screen
    destroyed,          \* cv2.destroyAllWindows() was called
    reported,           \* the printed "Total frames captured", or NONE
    \* recording variables (what happened, for the properties)
    loopsRun,           \* the loops that were entered
    exitReason,         \* why the run ended
    nreads,             \* frames read successfully
    capturedSeq,        \* the sequence numbers given to captured frames
    prevCapTs,          \* timestamp of the previously captured frame, or NONE
    decision,           \* "none" | "captured" | "skipped" for the frame at hand
    rendered,           \* imshow was called for the frame at hand
    nrenders,           \* calls of imshow
    keyChecks,          \* calls of cv2.waitKey
    outcomes,           \* the outcome of every fetch, in order
    elapsed,            \* time the last fetch/decode/render took
    nsleeps,            \* completed time.sleep calls
    sleptFor            \* the argument of the last time.sleep, or NONE

vars == << stream_url, interval, save_frames, show_live, pc, exc, output_folder,
           cap, last_capture_time, frame_count, now, dirExists, makedirsCalls,
           files, imwriteCalls, windowOpen, destroyed, reported, loopsRun,
           exitReason, nreads, capturedSeq, prevCapTs, decision, rendered,
           nrenders, keyChecks, outcomes, elapsed, nsleeps, sleptFor >>

config == << stream_url, interval, save_frames, show_live >>
fs     == << dirExists, makedirsCalls, files, imwriteCalls >>
snapRec == << outcomes, elapsed, nsleeps, sleptFor >>
csRec  == << nreads, prevCapTs, decision, rendered >>

Init ==
    /\ stream_url \in URLS
    /\ interval \in 1..MaxInterval
    /\ save_frames \in BOOLEAN
    /\ show_live \in BOOLEAN
    /\ pc = "start"
    /\ exc = "none"
    /\ output_folder = UNBOUND
    /\ cap = "none"
    /\ last_capture_time = 0
    /\ frame_count = 0
    /\ now = 0
    /\ dirExists \in BOOLEAN
    /\ makedirsCalls = 0
    /\ files = {}
    /\ imwriteCalls = 0
    /\ windowOpen = FALSE
    /\ destroyed = FALSE
    /\ reported = NONE
    /\ loopsRun = {}
    /\ exitReason = "none"
    /\ nreads = 0
    /\ capturedSeq = << >>
    /\ prevCapTs = NONE
    /\ decision = "none"
    /\ rendered = FALSE
    /\ nrenders = 0
    /\ keyChecks = 0
    /\ outcomes = << >>
    /\ elapsed = 0
    /\ nsleeps = 0
    /\ sleptFor = NONE

\* ------------------------------------------------------------ entry point
\* lines 20-27: the session folder
Setup ==
    /\ pc = "start"
    /\ pc' = "classify"
    /\ IF save_frames
         THEN /\ output_folder' = "captured_frames/session"
              /\ IF ~dirExists
                   THEN dirExists' = TRUE /\ makedirsCalls' = makedirsCalls + 1
                   ELSE UNCHANGED << dirExists, makedirsCalls >>
         ELSE UNCHANGED << output_folder, dirExists, makedirsCalls >>
    /\ UNCHANGED << config, exc, cap, last_capture_time, frame_count, now, files,
                    imwriteCalls, windowOpen, destroyed, reported, loopsRun,
                    exitReason, csRec, capturedSeq, nrenders, keyChecks, snapRec >>

\* lines 30-34: the classification, and the call of the snapshot poller with
\* output_folder among its arguments (a name bound only when save_frames)
Dispatch ==
    /\ pc = "classify"
    /\ IF IsSnapshot(stream_url)
         THEN IF output_folder = UNBOUND
                THEN /\ exc' = "UnboundLocalError"
                     /\ exitReason' = "exception"
                     /\ pc' = "raised"
                     /\ UNCHANGED << frame_count, loopsRun >>
                ELSE /\ pc' = "snap_fetch"          \* lines 90-95
                     /\ frame_count' = 0
                     /\ loopsRun' = loopsRun \cup {"snapshot"}
                     /\ UNCHANGED << exc, exitReason >>
         ELSE /\ pc' = "open"                      \* lines 36-38
              /\ loopsRun' = loopsRun \cup {"continuous"}
              /\ UNCHANGED << exc, exitReason, frame_count >>
    /\ UNCHANGED << config, output_folder, cap, last_capture_time, now, fs,
                    windowOpen, destroyed, reported, csRec, capturedSeq,
                    nrenders, keyChecks, snapRec >>

\* ------------------------------------------------------ continuous stream
\* lines 38-47: cv2.VideoCapture(stream_url); the early return when it is not
\* opened; the loop's locals
OpenStream ==
    /\ pc = "open"
    /\ \E opened \in BOOLEAN :
         IF opened
           THEN /\ cap' = "opened"
                /\ last_capture_time' = 0
                /\ frame_count' = 0
                /\ pc' = "cs_read"
                /\ UNCHANGED exitReason
           ELSE /\ cap' = "unopened"
                /\ exitReason' = "open_failure"
                /\ pc' = "done"                      \* line 42: return
                /\ UNCHANGED << last_capture_time, frame_count >>
    /\ UNCHANGED << config, exc, output_folder, now, fs, windowOpen, destroyed,
                    reported, loopsRun, csRec, capturedSeq, nrenders, keyChecks,
                    snapRec >>

\* lines 50-54: cap.read(); the stream yields at most MaxReads frames
Read ==
    /\ pc = "cs_read"
    /\ \/ /\ nreads < MaxReads                       \* ret is True
          /\ nreads' = nreads + 1
          /\ prevCapTs' = IF decision = "captured" THEN now ELSE prevCapTs
          /\ decision' = "none"
          /\ rendered' = FALSE
          /\ pc' = "cs_decide"
          /\ UNCHANGED exitReason
       \/ /\ exitReason' = "read_failure"            \* ret is False: break
          /\ pc' = "cs_cleanup"
          /\ UNCHANGED csRec
    /\ UNCHANGED << config, exc, output_folder, cap, last_capture_time,
                    frame_count, now, fs, windowOpen, destroyed, reported,
                    loopsRun, capturedSeq, nrenders, keyChecks, snapRec >>

\* line 59: current_time - last_capture_time >= interval
Due(current_time, last, T) == current_time - last >= T

\* a counter stepped by two
NextCountTwice(fc) == fc + 2

\* lines 60 and 107: frame_count += 1
NextCount(fc) == fc + 1

\* lines 63-65 and 110-112: cv2.imwrite under save_frames; imwrite reports a
\* failed write by its return value, which the code does not read
Written(fs_files, n, save, ok) == IF save /\ ok THEN fs_files \cup {n} ELSE fs_files

\* lines 56-70: the capture decision for the frame just read.  time.time()
\* gives any value not below the last one; interval is any positive number,
\* so the first timestamp may lie below it as well as above it.
Decide ==
    /\ pc = "cs_decide"
    /\ \E t \in now..MaxTime, ok \in BOOLEAN :
         /\ now' = t                                 \* line 56
         /\ IF Due(t, last_capture_time, interval)
              THEN /\ frame_count' = NextCount(frame_count)
                   /\ capturedSeq' = Append(capturedSeq, frame_count')
                   /\ files' = Written(files, frame_count', save_frames, ok)
                   /\ imwriteCalls' = IF save_frames THEN imwriteCalls + 1
                                                     ELSE imwriteCalls
                   /\ last_capture_time' = t
                   /\ decision' = "captured"
              ELSE /\ decision' = "skipped"
                   /\ UNCHANGED << frame_count, capturedSeq, files, imwriteCalls,
                                   last_capture_time >>
    /\ pc' = "cs_show"
    /\ UNCHANGED << config, exc, output_folder, cap, dirExists, makedirsCalls,
                    windowOpen, destroyed, reported, loopsRun, exitReason, nreads,
                    prevCapTs, rendered, nrenders, keyChecks, snapRec >>

\* a live view that shows only the frames that were captured
ShowCapturedOnly ==
    /\ pc = "cs_show"
    /\ IF show_live /\ decision = "captured"
         THEN /\ rendered' = TRUE
              /\ nrenders' = nrenders + 1
              /\ windowOpen' = TRUE
         ELSE UNCHANGED << rendered, nrenders, windowOpen >>
    /\ pc' = "cs_waitkey"
    /\ UNCHANGED << config, exc, output_folder, cap, last_capture_time,
                    frame_count, now, fs, destroyed, reported, loopsRun,
                    exitReason, nreads, capturedSeq, prevCapTs, decision,
                    keyChecks, snapRec >>

\* lines 73-74: the live view
Show ==
    /\ pc = "cs_show"
    /\ IF show_live
         THEN /\ rendered' = TRUE
              /\ nrenders' = nrenders + 1
              /\ windowOpen' = TRUE
         ELSE UNCHANGED << rendered, nrenders, windowOpen >>
    /\ pc' = "cs_waitkey"
    /\ UNCHANGED << config, exc, output_folder, cap, last_capture_time,
                    frame_count, now, fs, destroyed, reported, loopsRun,
                    exitReason, nreads, capturedSeq, prevCapTs, decision,
                    keyChecks, snapRec >>

\* The keys cv2.waitKey can return: 'q' needs a window that has the focus.
Keys == IF windowOpen THEN {"q", "other"} ELSE {"other"}

\* a quit command whose break is missing
WaitKeyNoBreak ==
    /\ pc = "cs_waitkey"
    /\ keyChecks' = keyChecks + 1
    /\ \E key \in Keys :
         IF key = "q"
           THEN exitReason' = "quit" /\ pc' = "cs_read"
           ELSE pc' = "cs_read" /\ UNCHANGED exitReason
    /\ UNCHANGED << config, exc, output_folder, cap, last_capture_time,
                    frame_count, now, fs, windowOpen, destroyed, reported,
                    loopsRun, csRec, capturedSeq, nrenders, snapRec >>

\* lines 77-79: the quit command
WaitKey ==
    /\ pc = "cs_waitkey"
    /\ keyChecks' = keyChecks + 1
    /\ \E key \in Keys :
         IF key = "q"
           THEN exitReason' = "quit" /\ pc' = "cs_cleanup"   \* break
           ELSE pc' = "cs_read" /\ UNCHANGED exitReason
    /\ UNCHANGED << config, exc, output_folder, cap, last_capture_time,
                    frame_count, now, fs, windowOpen, destroyed, reported,
                    loopsRun, csRec, capturedSeq, nrenders, snapRec >>

\* lines 82-84
Cleanup ==
    /\ pc = "cs_cleanup"
    /\ cap' = "released"
    /\ windowOpen' = FALSE
    /\ destroyed' = TRUE
    /\ reported' = frame_count
    /\ pc' = "done"
    /\ UNCHANGED << config, exc, output_folder, last_capture_time, frame_count,
                    now, fs, loopsRun, exitReason, csRec, capturedSeq, nrenders,
                    keyChecks, snapRec >>

\* Ctrl-C while the continuous loop runs: lines 49-79 have no handler, so
\* KeyboardInterrupt leaves capture_stream
CsInterrupt ==
    /\ pc \in {"cs_read", "cs_decide", "cs_show", "cs_waitkey"}
    /\ exc' = "KeyboardInterrupt"
    /\ exitReason' = "exception"
    /\ pc' = "raised"
    /\ UNCHANGED << config, output_folder, cap, last_capture_time, frame_count,
                    now, fs, windowOpen, destroyed, reported, loopsRun, csRec,
                    capturedSeq, nrenders, keyChecks, snapRec >>

\* -------------------------------------------------------- snapshot poller
\* What one requests.get and cv2.imdecode can give: an exception of
\* requests, a status other than 200, a body imdecode returns None for, or a
\* decoded frame.
Outcomes == {"TransportFailure", "BadStatus", "DecodeFailure", "Success"}

\* a capture test without the check of imdecode's result
CapturesUndecoded(o) == o \in {"Success", "DecodeFailure"}

\* lines 101 and 106: status_code == 200 and frame is not None
Captures(o) == o = "Success"

\* a key poll at the end of every iteration
KeyPolledAlways(o, show) == show

\* lines 106, 118, 121: waitKey is called after imshow, under show_live, in
\* the branch of a decoded frame
KeyPolled(o, show) == Captures(o) /\ show

\* lines 97-130: one fetch, and what follows from its outcome
SnapFetch ==
    /\ pc = "snap_fetch"
    /\ Len(outcomes) < MaxFetches
    /\ \E o \in Outcomes, d \in 0..MaxFetchDur, ok \in BOOLEAN :
         /\ outcomes' = Append(outcomes, o)
         /\ elapsed' = d
         /\ IF Captures(o)
              THEN /\ frame_count' = NextCount(frame_count)
                   /\ capturedSeq' = Append(capturedSeq, frame_count')
                   /\ files' = Written(files, frame_count', save_frames, ok)
                   /\ imwriteCalls' = IF save_frames THEN imwriteCalls + 1
                                                     ELSE imwriteCalls
                   /\ nrenders' = IF show_live THEN nrenders + 1 ELSE nrenders
              ELSE UNCHANGED << frame_count, capturedSeq, files, imwriteCalls,
                                nrenders >>
         /\ keyChecks' = IF KeyPolled(o, show_live) THEN keyChecks + 1
                                                    ELSE keyChecks
         /\ \E key \in (IF KeyPolled(o, show_live) THEN {"q", "other"}
                                                   ELSE {"other"}) :
              IF key = "q"
                THEN /\ exitReason' = "quit"         \* break, then finally
                     /\ windowOpen' = FALSE
                     /\ destroyed' = TRUE
                     /\ reported' = frame_count'
                     /\ pc' = "done"
                ELSE /\ windowOpen' = (windowOpen \/ (Captures(o) /\ show_live))
                     /\ pc' = "snap_sleep"
                     /\ UNCHANGED << exitReason, destroyed, reported >>
    /\ UNCHANGED << config, exc, output_folder, cap, last_capture_time, now,
                    dirExists, makedirsCalls, loopsRun, csRec, nsleeps, sleptFor >>

\* a sleep for what is left of the interval
SleepRemaining(T, spent) == T - spent

\* line 134: time.sleep(interval)
SleepDuration(T, spent) == T

\* lines 133-134
SnapSleep ==
    /\ pc = "snap_sleep"
    /\ sleptFor' = SleepDuration(interval, elapsed)
    /\ nsleeps' = nsleeps + 1
    /\ pc' = "snap_fetch"
    /\ UNCHANGED << config, exc, output_folder, cap, last_capture_time,
                    frame_count, now, fs, windowOpen, destroyed, reported,
                    loopsRun, exitReason, csRec, capturedSeq, nrenders,
                    keyChecks, outcomes, elapsed >>

\* lines 136-140: Ctrl-C during a fetch or a sleep
SnapInterrupt ==
    /\ pc \in {"snap_fetch", "snap_sleep"}
    /\ exitReason' = "interrupt"
    /\ windowOpen' = FALSE
    /\ destroyed' = TRUE
    /\ reported' = frame_count
    /\ pc' = "done"
    /\ UNCHANGED << config, exc, output_folder, cap, last_capture_time,
                    frame_count, now, fs, loopsRun, csRec, capturedSeq, nrenders,
                    keyChecks, snapRec >>

Next ==
    \/ Setup
    \/ Dispatch
    \/ OpenStream
    \/ Read
    \/ Decide
    \/ Show
    \/ WaitKey
    \/ Cleanup
    \/ CsInterrupt
    \/ SnapFetch
    \/ SnapSleep
    \/ SnapInterrupt

Spec == Init /\ [][Next]_vars

TypeOK ==
    /\ pc \in {"start", "classify", "open", "cs_read", "cs_decide", "cs_show",
               "cs_waitkey", "cs_cleanup", "snap_fetch", "snap_sleep", "done",
               "raised"}
    /\ frame_count \in 0..(MaxReads + MaxFetches)
    /\ now \in 0..MaxTime
    /\ reported \in {NONE} \cup 0..(MaxReads + MaxFetches)

\* ================================================================ claims
InContinuous == "continuous" \in loopsRun
InSnapshot   == "snapshot" \in loopsRun

\* the fetches so far that gave status 200 and a decodable body
NumSuccess == Cardinality({i \in DOMAIN outcomes : outcomes[i] = "Success"})

LastOutcome == outcomes[Len(outcomes)]

\* C1: in both modes the sequence numbers given to captured frames are
\* exactly 1, 2, 3, ...: the i-th capture gets i, the counter equals the
\* number of captures (so a skipped frame or a failed fetch never moves it),
\* in snapshot mode it equals the number of successful fetches, and every
\* file written carries the number of a capture.
C1_SequenceNumbers ==
    /\ \A i \in 1..Len(capturedSeq) : capturedSeq[i] = i
    /\ frame_count = Len(capturedSeq)
    /\ InSnapshot => frame_count = NumSuccess
    /\ InContinuous => frame_count <= nreads
    /\ files \subseteq 1..Len(capturedSeq)

\* two captures with a skipped frame between or after them
C1_Witness ==
    /\ InContinuous
    /\ capturedSeq = << 1, 2 >>
    /\ nreads = 4
    /\ decision = "skipped"

\* C2: in continuous mode a frame is captured exactly when its timestamp
\* minus the timestamp of the previously captured frame is >= interval, and
\* the first frame read (no previously captured frame) is always captured.
C2_Decimation ==
    (InContinuous /\ pc \in {"cs_show", "cs_waitkey"}) =>
        ( decision = "captured" <=>
            (prevCapTs = NONE \/ now - prevCapTs >= interval) )

\* C3: with save_frames false no directory is created and no file is
\* written in either mode, and the selected capture loop still runs, its
\* counter stepping once per captured frame.
C3_PersistOff ==
    ~save_frames =>
        /\ makedirsCalls = 0
        /\ files = {}
        /\ imwriteCalls = 0
        /\ frame_count = Len(capturedSeq)
        /\ pc \notin {"start", "classify"} =>
             /\ exc # "UnboundLocalError"
             /\ loopsRun # {}

\* C4: in snapshot mode a fetch that ends in a transport failure, a bad
\* status or a decode failure neither ends the loop nor moves the counter:
\* the counter is the number of successful fetches, after a failed fetch the
\* loop is at its sleep or its next fetch unless Ctrl-C ended it, no
\* exception leaves the poller, and the only other way out is the quit key
\* after a successful fetch; the outcomes [TransportFailure, BadStatus,
\* DecodeFailure, Success] give exactly one captured frame, numbered 1.
C4_NonFatal ==
    InSnapshot =>
        /\ frame_count = NumSuccess
        /\ exc = "none"
        /\ exitReason \in {"none", "quit", "interrupt"}
        /\ (Len(outcomes) > 0 /\ LastOutcome # "Success") =>
              /\ exitReason \in {"none", "interrupt"}
              /\ exitReason = "none" => pc \in {"snap_sleep", "snap_fetch"}
        /\ exitReason = "quit" => (Len(outcomes) > 0 /\ LastOutcome = "Success")
        /\ outcomes = << "TransportFailure", "BadStatus", "DecodeFailure",
                         "Success" >> => capturedSeq = << 1 >>

C4_Witness ==
    /\ outcomes = << "TransportFailure", "BadStatus", "DecodeFailure", "Success" >>
    /\ capturedSeq = << 1 >>
    /\ pc = "snap_sleep"
    /\ exitReason = "none"

\* C5: in snapshot mode exactly one sleep separates two consecutive fetches,
\* after a failed fetch as after a successful one, every sleep lasts the full
\* interval whatever time the fetch took, and only the first fetch has no
\* sleep before it.
C5_PollCadence ==
    InSnapshot =>
        /\ pc = "snap_fetch" => nsleeps = Len(outcomes)
        /\ pc = "snap_sleep" => nsleeps = Len(outcomes) - 1
        /\ pc = "done" => nsleeps \in {Len(outcomes) - 1, Len(outcomes)}
        /\ nsleeps <= Len(outcomes)
        /\ nsleeps > 0 => sleptFor = interval

\* a sleep after a failed fetch that took time, then one after a success
C5_Witness ==
    /\ pc = "snap_fetch"
    /\ outcomes = << "TransportFailure", "Success" >>
    /\ nsleeps = 2
    /\ elapsed = 1
    /\ sleptFor = interval

\* the path of an address: what comes before its query string
PathOf(url) ==
    IF \E i \in DOMAIN url : url[i] = "?"
      THEN SubSeq(url, 1, (CHOOSE i \in DOMAIN url :
                             /\ url[i] = "?"
                             /\ \A j \in 1..(i - 1) : url[j] # "?") - 1)
      ELSE url

\* C6: once the entry point has dispatched, the snapshot poller is the one
\* loop run if the address's path ends in '.jpg' or the address contains
\* 'snap' in any letter case, and the continuous capturer is the one loop run
\* otherwise; never both, never neither.
C6_Dispatch ==
    pc \notin {"start", "classify"} =>
        IF EndsWith(PathOf(stream_url), DotJpg) \/ Contains(Lower(stream_url), Snap)
          THEN loopsRun = {"snapshot"}
          ELSE loopsRun = {"continuous"}

\* C7: whenever capture_stream has returned (after an open failure, a read
\* failure, the quit key or Ctrl-C in snapshot mode), a stream handle that
\* was created is released and the preview windows are destroyed; an open
\* failure leaves no frame read and none captured.
C7_Cleanup ==
    pc = "done" =>
        /\ cap \in {"none", "released"}
        /\ destroyed
        /\ ~windowOpen
        /\ exitReason = "open_failure" => (nreads = 0 /\ frame_count = 0)

\* C8 as stated: in snapshot mode with the preview on, the quit key is
\* polled in every iteration, whatever the outcome of its fetch.
C8_QuitEveryIteration ==
    (InSnapshot /\ show_live) => keyChecks = Len(outcomes)

\* C8 as amended: in snapshot mode with the preview on, the quit key is
\* polled exactly in the iterations whose fetch gave status 200 and a
\* decodable body, never in one whose fetch failed; a quit ends the loop at
\* once (no sleep and no fetch follows it), with the windows destroyed and the
\* total reported equal to the frames captured.
C8_QuitAfterCapture ==
    (InSnapshot /\ show_live) =>
        /\ keyChecks = NumSuccess
        /\ exitReason = "quit" =>
              /\ pc = "done"
              /\ LastOutcome = "Success"
              /\ nsleeps = Len(outcomes) - 1
              /\ reported = frame_count
              /\ reported = NumSuccess
              /\ destroyed

\* a failed fetch without a poll, then a captured frame and the quit key
C8_Witness ==
    /\ InSnapshot /\ show_live
    /\ outcomes = << "BadStatus", "Success" >>
    /\ keyChecks = 1
    /\ exitReason = "quit"
    /\ reported = 1

\* a frame is due when the interval has passed since the last capture, or
\* since the zero of the clock while nothing was captured (line 46)
DueNow == now - (IF prevCapTs = NONE THEN 0 ELSE prevCapTs) >= interval

\* C9: in continuous mode the loop closes on the first failed read or the
\* first quit: from then on the program is at its cleanup or has returned,
\* the total it reports equals the frames captured, the quit key is polled
\* exactly once per frame read, after that frame's capture decision, and a
\* frame that is due in the iteration of the quit is captured.
C9_Close ==
    InContinuous =>
        /\ exitReason \in {"read_failure", "quit"} =>
              /\ pc \in {"cs_cleanup", "done"}
              /\ keyChecks = nreads
        /\ reported # NONE =>
              /\ pc = "done"
              /\ reported = frame_count
              /\ reported = Len(capturedSeq)
        /\ (pc = "done" /\ exitReason # "open_failure") => reported # NONE
        /\ pc = "cs_read" => keyChecks = nreads
        /\ pc \in {"cs_decide", "cs_show", "cs_waitkey"} => keyChecks = nreads - 1
        /\ pc = "cs_waitkey" => decision # "none"
        /\ exitReason = "quit" =>
              /\ decision # "none"
              /\ DueNow => (decision = "captured" /\ capturedSeq # << >>
                            /\ last_capture_time = now)

\* the quit key in the iteration of a captured second frame
C9_Witness ==
    /\ InContinuous
    /\ exitReason = "quit"
    /\ pc = "done"
    /\ nreads = 3
    /\ decision = "captured"
    /\ reported = 2

\* C10: in continuous mode a frame read is rendered exactly when show_live
\* is set, captured or skipped alike, so the renders number the frames read
\* with show_live and zero without; rendering leaves the counter and
\* last_capture_time as the capture decision set them.
C10_Render ==
    InContinuous =>
        /\ pc = "cs_waitkey" => (rendered <=> show_live)
        /\ pc \in {"cs_decide", "cs_show"} => ~rendered
        /\ pc \in {"cs_read", "cs_waitkey", "cs_cleanup", "done"} =>
              nrenders = (IF show_live THEN nreads ELSE 0)
        /\ pc \in {"cs_decide", "cs_show"} =>
              nrenders = (IF show_live THEN nreads - 1 ELSE 0)
        /\ pc = "cs_waitkey" =>
              /\ frame_count = Len(capturedSeq)
              /\ last_capture_time =
                   (IF decision = "captured" THEN now
                    ELSE IF prevCapTs = NONE THEN 0 ELSE prevCapTs)

\* a skipped frame on the screen
C10_Witness ==
    /\ InContinuous
    /\ pc = "cs_waitkey"
    /\ show_live
    /\ decision = "skipped"
    /\ rendered
    /\ nreads = 2
====
